---- MODULE Spec2Model ----
(***************************************************************************)
(* DAKboard earnings calendar server (src/app.js).                         *)
(*                                                                         *)
(* Two specifications share this module:                                   *)
(*   PipelineSpec - one run of the synchronous part of fetchEarningsData   *)
(*                  (grouping loop, then transform loop) on an API         *)
(*                  response drawn from a bounded family;                  *)
(*   Spec         - the server: initializeData, the cron callback, the     *)
(*                  HTTP handlers and the in-flight fetchEarningsData      *)
(*                  invocations, interleaved at their await points.        *)
(*                                                                         *)
(* Calendar.  A calendar date is a day index d: day 0 is Sunday            *)
(* 2024-09-01, so day d is 2024-09-(d+1) and day -1 is 2024-08-31.  A      *)
(* Date object is an instant counted in hours since 2024-09-01T00:00Z, or  *)
(* the Invalid Date.  The process time zone tz is a whole number of hours  *)
(* east of UTC.  A YYYY-MM-DD key is kept as its day index: keys of one    *)
(* width compare as strings exactly as their day indices compare.          *)
(***************************************************************************)
EXTENDS Integers, Sequences, FiniteSets, TLC

VARIABLES
    tz,                  \* process time zone, hours east of UTC
    today,               \* local calendar day of "new Date()"
    \* ---- one synchronous pipeline run (PipelineSpec) ----
    data,                \* the array returned by response.json()
    pc,                  \* "group" | "transform" | "done" | "failed" | "off"
    idx,                 \* next element of data / dateEntries to visit
    earningsByDate,      \* insertion-ordered <<[date, earnings]>>
    dateEntries,         \* sorted Object.entries(earningsByDate)
    dakboardData,        \* the card array under construction
    businessDaysCounter,
    \* ---- the server (Spec) ----
    cachedData,          \* the published in-memory card sequence
    file,                \* config.dataFile
    listening,           \* app.listen has been called
    inv,                 \* in-flight fetchEarningsData invocations
    last,                \* the most recent handler step (observation)
    response             \* body of the latest GET /api/earnings answer

vars == <<tz, today, data, pc, idx, earningsByDate, dateEntries, dakboardData,
          businessDaysCounter, cachedData, file, listening, inv, last, response>>

pipeVars == <<data, pc, idx, earningsByDate, dateEntries, dakboardData,
              businessDaysCounter>>

serverVars == <<cachedData, file, listening, inv, last, response>>

----------------------------------------------------------------------------
(* Bounds of the model *)

MaxExtra == 1        \* records of the response beyond its per-day base
MaxInFlight == 2     \* invocations that may be awaiting at once
MaxTicks == 1        \* cron ticks (midnights) after process start

(* Program constants *)

FetchWindowDays == 14    \* endDate.setDate(today.getDate() + 14)
MaxBusinessDays == 10    \* if (businessDaysCounter >= 10) break
LastSeparatorSlot == 9   \* if (businessDaysCounter < 9)

TimeZones == {-5, 0, 9}

----------------------------------------------------------------------------
(* Date arithmetic *)

InvalidDate == [valid |-> FALSE, t |-> 0]

\* a raw date string: "date" is YYYY-MM-DD, "time" is "YYYY-MM-DD HH:00",
\* "iso" is "YYYY-MM-DDTHH:00", "bad" is text that is no date
DateOnly(d) == [kind |-> "date", day |-> d, hour |-> 0]

\* earning.date.split(' ')[0]
SplitDate(s) == IF s.kind = "time" THEN DateOnly(s.day) ELSE s

\* new Date(string): a date-only string is UTC midnight, a date-time string
\* without offset is local time, anything else is the Invalid Date
NewDate(s, zone) ==
    CASE s.kind = "date" -> [valid |-> TRUE, t |-> s.day * 24]
      [] s.kind = "iso"  -> [valid |-> TRUE, t |-> s.day * 24 + s.hour - zone]
      [] OTHER           -> InvalidDate

\* the local calendar day of an instant
LocalDay(date, zone) == (date.t + zone) \div 24

\* Date.prototype.getDay(): local day of week, 0 = Sunday .. 6 = Saturday
getDay(date, zone) ==
    IF date.valid THEN LocalDay(date, zone) % 7 ELSE -1   \* NaN

\* day of month of day index d (August has 31 days)
DayOfMonth(d) == IF d < 0 THEN 32 + d ELSE d + 1

\* Date.prototype.getDate(): local day of month
getDate(date, zone) == DayOfMonth(LocalDay(date, zone))

\* formatDate: toISOString().split('T')[0], the UTC calendar day; the caller
\* checks date.valid first, because toISOString throws on the Invalid Date
formatDate(date) == date.t \div 24

\* toLocaleDateString('en-US', {month: 'long', day: 'numeric', year: 'numeric'})
LongDate(d) ==
    IF d < 0 THEN "August " \o ToString(32 + d) \o ", 2024"
    ELSE "September " \o ToString(d + 1) \o ", 2024"

\* the true weekday of a YYYY-MM-DD key
KeyWeekday(key) == key % 7

IsWeekend(dow) == dow = 0 \/ dow = 6

----------------------------------------------------------------------------
(* Cards *)

Card(v, t, s) == [value |-> v, title |-> t, subtitle |-> s]

HeaderCard(day) ==
    Card("The Most Anticipated Earnings Releases", "",
         "for the period beginning " \o LongDate(day))

NoteCard == Card("(only showing confirmed release dates)", "", "")

SeparatorCard == Card("---", "", "")

dayLabels == <<"Monday", "Tuesday", "Wednesday", "Thursday", "Friday">>

DayLabelCard(counter, displayDate) ==
    Card(dayLabels[(counter % Len(dayLabels)) + 1] \o " - " \o ToString(displayDate),
         "", "")

----------------------------------------------------------------------------
(* Raw records and the grouping loop *)

NoEps == [present |-> FALSE, num |-> 0]
Eps(n) == [present |-> TRUE, num |-> n]

\* JavaScript truthiness of earning.eps: undefined, null and 0 are falsy
Truthy(eps) == eps.present /\ eps.num # 0

Raw(sym, nm, d, e) == [symbol |-> sym, name |-> nm, date |-> d, epsEstimated |-> e]

\* the object pushed by earningsByDate[formattedDate].push({...});
\* an absent name and the empty name are both falsy
GroupedEntry(earning) ==
    [symbol |-> earning.symbol,
     name   |-> IF earning.name = "" THEN earning.symbol ELSE earning.name,
     eps    |-> earning.epsEstimated]

HasKey(map, key) == \E k \in 1..Len(map) : map[k].date = key

KeyIndex(map, key) == CHOOSE k \in 1..Len(map) : map[k].date = key

\* if (!earningsByDate[k]) earningsByDate[k] = []; earningsByDate[k].push(e)
PushEntry(map, key, entry) ==
    IF HasKey(map, key)
    THEN [map EXCEPT ![KeyIndex(map, key)].earnings = Append(@, entry)]
    ELSE Append(map, [date |-> key, earnings |-> <<entry>>])

\* the day of week the grouping loop tests
GroupDay(earning, zone) == getDay(NewDate(SplitDate(earning.date), zone), zone)

\* one call of the data.forEach callback: [ok, map]; ok = FALSE when
\* formatDate throws a RangeError on the Invalid Date
GroupOne(map, earning, zone) ==
    LET date == NewDate(SplitDate(earning.date), zone)
        day  == GroupDay(earning, zone)
    IN  IF IsWeekend(day) THEN [ok |-> TRUE, map |-> map]
        ELSE IF ~date.valid THEN [ok |-> FALSE, map |-> map]
        ELSE [ok |-> TRUE,
              map |-> PushEntry(map, formatDate(date), GroupedEntry(earning))]

RECURSIVE GroupFrom(_, _, _, _)
GroupFrom(map, records, k, zone) ==
    IF k > Len(records) THEN [ok |-> TRUE, map |-> map]
    ELSE LET r == GroupOne(map, records[k], zone)
         IN  IF r.ok THEN GroupFrom(r.map, records, k + 1, zone) ELSE r

\* the whole data.forEach(...)
Group(records, zone) == GroupFrom(<<>>, records, 1, zone)

----------------------------------------------------------------------------
(* Sorting *)

\* collation order of the ticker symbols of the model
SymbolOrder == <<"AAA", "ZZZ">>

SymbolRank(sym) == CHOOSE k \in 1..Len(SymbolOrder) : SymbolOrder[k] = sym

\* a.symbol.localeCompare(b.symbol)
localeCompare(a, b) == SymbolRank(a) - SymbolRank(b)

\* insert e after the last element that does not compare greater (stable)
RECURSIVE InsertSymbol(_, _)
InsertSymbol(sorted, e) ==
    IF sorted = <<>> THEN <<e>>
    ELSE LET n == Len(sorted)
         IN  IF localeCompare(sorted[n].symbol, e.symbol) <= 0
             THEN Append(sorted, e)
             ELSE Append(InsertSymbol(SubSeq(sorted, 1, n - 1), e), sorted[n])

RECURSIVE SortFrom(_, _, _)
SortFrom(sorted, s, k) ==
    IF k > Len(s) THEN sorted ELSE SortFrom(InsertSymbol(sorted, s[k]), s, k + 1)

\* the group left in arrival order
SortBySymbolNone(earnings) == earnings

\* earnings.sort((a, b) => a.symbol.localeCompare(b.symbol))
SortBySymbol(earnings) == SortFrom(<<>>, earnings, 1)

RECURSIVE InsertKey(_, _)
InsertKey(sorted, e) ==
    IF sorted = <<>> THEN <<e>>
    ELSE LET n == Len(sorted)
         IN  IF sorted[n].date <= e.date
             THEN Append(sorted, e)
             ELSE Append(InsertKey(SubSeq(sorted, 1, n - 1), e), sorted[n])

RECURSIVE SortKeysFrom(_, _, _)
SortKeysFrom(sorted, s, k) ==
    IF k > Len(s) THEN sorted ELSE SortKeysFrom(InsertKey(sorted, s[k]), s, k + 1)

\* Object.entries(earningsByDate).sort(([a], [b]) => a.localeCompare(b))
SortEntries(map) == SortKeysFrom(<<>>, map, 1)

----------------------------------------------------------------------------
(* The transform loop *)

\* subtitle: earning.eps ? `Est. EPS: $${earning.eps}` : ""
EpsSubtitle(eps) ==
    IF Truthy(eps) THEN "Est. EPS: $" \o ToString(eps.num) ELSE ""

CompanyCard(earning) == Card(earning.symbol, earning.name, EpsSubtitle(earning.eps))

RECURSIVE CompanyCards(_, _)
CompanyCards(earnings, k) ==
    IF k > Len(earnings) THEN <<>>
    ELSE <<CompanyCard(earnings[k])>> \o CompanyCards(earnings, k + 1)

\* if (businessDaysCounter < 9) push the separator
SeparatorAfter(counter) ==
    IF counter < LastSeparatorSlot THEN <<SeparatorCard>> ELSE <<>>

\* the break test taken one iteration late
CapReachedLate(counter) == counter > MaxBusinessDays

\* if (businessDaysCounter >= 10) break
CapReached(counter) == counter >= MaxBusinessDays

\* the two cards pushed before the loop
Headers(day) == <<HeaderCard(day), NoteCard>>

\* one iteration of "for (const [dateStr, earnings] of dateEntries)" that
\* has passed the break test: [cards, counter]
TransformOne(cards, counter, entry, zone) ==
    LET date      == NewDate(DateOnly(entry.date), zone)
        dayOfWeek == getDay(date, zone)
    IN  IF IsWeekend(dayOfWeek) THEN [cards |-> cards, counter |-> counter]
        ELSE [cards |-> cards
                        \o <<DayLabelCard(counter, getDate(date, zone))>>
                        \o CompanyCards(SortBySymbol(entry.earnings), 1)
                        \o SeparatorAfter(counter),
              counter |-> counter + 1]

RECURSIVE TransformFrom(_, _, _, _, _)
TransformFrom(cards, counter, entries, k, zone) ==
    IF k > Len(entries) \/ CapReached(counter) THEN cards
    ELSE LET r == TransformOne(cards, counter, entries[k], zone)
         IN  TransformFrom(r.cards, r.counter, entries, k + 1, zone)

\* lines 99-164: the card array built from a grouped map
Transform(map, day, zone) ==
    TransformFrom(Headers(day), 0, SortEntries(map), 1, zone)

\* the synchronous part of fetchEarningsData on an array response:
\* [ok, cards]; ok = FALSE when the grouping loop throws
Pipeline(records, day, zone) ==
    LET g == Group(records, zone)
    IN  IF g.ok THEN [ok |-> TRUE, cards |-> Transform(g.map, day, zone)]
        ELSE [ok |-> FALSE, cards |-> <<>>]

----------------------------------------------------------------------------
(* The API responses of the model *)

RECURSIVE SeqsUpTo(_, _)
SeqsUpTo(S, n) ==
    IF n = 0 THEN {<<>>}
    ELSE LET shorter == SeqsUpTo(S, n - 1)
         IN  shorter \cup {Append(q, x) : q \in {r \in shorter : Len(r) = n - 1}, x \in S}

\* the API's own record of calendar day d: "YYYY-MM-DD 16:00"
BaseRecord(d) ==
    Raw("ZZZ", "Zeta Corp", [kind |-> "time", day |-> d, hour |-> 16], Eps(2))

\* one record for each of the first n days of the fetch window, latest first
RECURSIVE BaseRecords(_, _)
BaseRecords(first, n) ==
    IF n = 0 THEN <<>> ELSE <<BaseRecord(first + n - 1)>> \o BaseRecords(first, n - 1)

\* dates of the further records, for a window that starts on Monday day 1:
\* Tuesday, Saturday, Monday 03:00 local time, and text that is no date
ExtraDates ==
    {DateOnly(2), DateOnly(6), [kind |-> "iso", day |-> 1, hour |-> 3],
     [kind |-> "bad", day |-> 0, hour |-> 0]}

\* the further records carry no name, with or without an EPS estimate
ExtraRecords ==
    {Raw(sym, "", d, e) : sym \in {"AAA", "ZZZ"}, d \in ExtraDates,
                          e \in {NoEps, Eps(0), Eps(2)}}

\* the array responses: a per-day base followed by up to MaxExtra records
Responses(first) ==
    {BaseRecords(first, n) \o x : n \in 0..(FetchWindowDays + 1),
                                  x \in SeqsUpTo(ExtraRecords, MaxExtra)}

----------------------------------------------------------------------------
(* PipelineSpec: the synchronous part of fetchEarningsData, loop by loop *)

ServerIdle ==
    /\ cachedData = <<>>
    /\ file = [kind |-> "absent", text |-> <<>>]
    /\ listening = FALSE
    /\ inv = <<>>
    /\ last = [kind |-> "none", trigger |-> "none", cards |-> <<>>]
    /\ response = <<>>

PipelineInit ==
    /\ tz \in TimeZones
    /\ today = 1
    /\ data \in Responses(today)
    /\ pc = "group"
    /\ idx = 1
    /\ earningsByDate = <<>>
    /\ dateEntries = <<>>
    /\ dakboardData = <<>>
    /\ businessDaysCounter = 0
    /\ ServerIdle

\* one call of the forEach callback that returns normally
GroupStep ==
    /\ pc = "group"
    /\ idx <= Len(data)
    /\ GroupOne(earningsByDate, data[idx], tz).ok
    /\ earningsByDate' = GroupOne(earningsByDate, data[idx], tz).map
    /\ idx' = idx + 1
    /\ UNCHANGED <<tz, today, data, pc, dateEntries, dakboardData,
                   businessDaysCounter, serverVars>>

\* the forEach callback throws: control passes to the catch block
GroupThrow ==
    /\ pc = "group"
    /\ idx <= Len(data)
    /\ ~GroupOne(earningsByDate, data[idx], tz).ok
    /\ pc' = "failed"
    /\ UNCHANGED <<tz, today, data, idx, earningsByDate, dateEntries, dakboardData,
                   businessDaysCounter, serverVars>>

\* lines 99-119: the header cards, the counter and the sorted entries
StartTransform ==
    /\ pc = "group"
    /\ idx > Len(data)
    /\ dakboardData' = Headers(today)
    /\ businessDaysCounter' = 0
    /\ dateEntries' = SortEntries(earningsByDate)
    /\ idx' = 1
    /\ pc' = "transform"
    /\ UNCHANGED <<tz, today, data, earningsByDate, serverVars>>

\* one iteration of the for loop over dateEntries
TransformStep ==
    /\ pc = "transform"
    /\ idx <= Len(dateEntries)
    /\ ~CapReached(businessDaysCounter)
    /\ LET r == TransformOne(dakboardData, businessDaysCounter, dateEntries[idx], tz)
       IN  /\ dakboardData' = r.cards
           /\ businessDaysCounter' = r.counter
    /\ idx' = idx + 1
    /\ UNCHANGED <<tz, today, data, pc, earningsByDate, dateEntries, serverVars>>

\* the loop ends: the entries are exhausted or the break is taken
FinishTransform ==
    /\ pc = "transform"
    /\ idx > Len(dateEntries) \/ CapReached(businessDaysCounter)
    /\ pc' = "done"
    /\ UNCHANGED <<tz, today, data, idx, earningsByDate, dateEntries, dakboardData,
                   businessDaysCounter, serverVars>>

PipelineNext ==
    \/ GroupStep
    \/ GroupThrow
    \/ StartTransform
    \/ TransformStep
    \/ FinishTransform

PipelineSpec == PipelineInit /\ [][PipelineNext]_vars

\* the loops, taken step by step, build what Pipeline computes in one go
PipelineAgrees ==
    /\ pc = "done" => Pipeline(data, today, tz) = [ok |-> TRUE, cards |-> dakboardData]
    /\ pc = "failed" => ~Pipeline(data, today, tz).ok

----------------------------------------------------------------------------
(* The fallback sequence and the cache file *)

\* the hardcoded cards of getSampleData after its two header cards
SampleBody ==
    <<Card("Monday - 14", "", ""),
      Card("AMEX", "American Express", "Est. EPS: $2.45"),
      Card("MTB", "M&T Bank", "Est. EPS: $3.12"),
      Card("FBK", "First Bank", "Est. EPS: $0.78"),
      Card("PNFP", "Pinnacle Financial", "Est. EPS: $1.65"),
      Card("KSTR", "Kestra Financial", "Est. EPS: $0.92"),
      Card("---", "", ""),
      Card("Tuesday - 15", "", ""),
      Card("BAC", "Bank of America", "Est. EPS: $0.82"),
      Card("UAL", "United Airlines", "Est. EPS: $2.34"),
      Card("C", "Citigroup", "Est. EPS: $1.42"),
      Card("JNJ", "Johnson & Johnson", "Est. EPS: $2.75"),
      Card("---", "", ""),
      Card("Wednesday - 16", "", ""),
      Card("ASML", "ASML Holding", "Est. EPS: $3.54"),
      Card("AA", "Alcoa", "Est. EPS: $0.22"),
      Card("PGR", "Progressive", "Est. EPS: $2.40"),
      Card("ABT", "Abbott Laboratories", "Est. EPS: $1.12"),
      Card("---", "", ""),
      Card("Thursday - 17", "", ""),
      Card("NFLX", "Netflix", "Est. EPS: $4.72"),
      Card("TSM", "Taiwan Semiconductor", "Est. EPS: $1.32"),
      Card("UNH", "UnitedHealth Group", "Est. EPS: $6.68"),
      Card("---", "", ""),
      Card("Friday - 18", "", ""),
      Card("ALLY", "Ally Financial", "Est. EPS: $0.54"),
      Card("DHI", "D.R. Horton", "Est. EPS: $3.24"),
      Card("---", "", ""),
      Card("Monday - 21", "", ""),
      Card("AZZ", "AZZ Inc", "Est. EPS: $0.92"),
      Card("AGNC", "AGNC Investment", "Est. EPS: $0.54"),
      Card("---", "", ""),
      Card("Tuesday - 22", "", ""),
      Card("TSLA", "Tesla", "Est. EPS: $0.67"),
      Card("VZ", "Verizon", "Est. EPS: $1.18"),
      Card("---", "", ""),
      Card("Wednesday - 23", "", ""),
      Card("IBM", "IBM", "Est. EPS: $1.58"),
      Card("T", "AT&T", "Est. EPS: $0.57"),
      Card("---", "", ""),
      Card("Thursday - 24", "", ""),
      Card("INTC", "Intel", "Est. EPS: $0.13"),
      Card("MS", "Morgan Stanley", "Est. EPS: $1.72"),
      Card("---", "", ""),
      Card("Friday - 25", "", ""),
      Card("CVX", "Chevron", "Est. EPS: $3.05"),
      Card("XOM", "Exxon Mobil", "Est. EPS: $2.12")>>

\* the fallback with no cards at all
getSampleDataEmpty(day) == <<>>

\* getSampleData(): the header subtitle is computed from the current date
getSampleData(day) == Headers(day) \o SampleBody

\* JSON text of a card array: one <<value, title, subtitle>> per object
Stringify(cards) ==
    [k \in 1..Len(cards) |-> <<cards[k].value, cards[k].title, cards[k].subtitle>>]

\* JSON.parse of such a text
Parse(text) == [k \in 1..Len(text) |-> Card(text[k][1], text[k][2], text[k][3])]

NoFile == [kind |-> "absent", text |-> <<>>]

\* a file whose content JSON.parse rejects
CorruptFile == [kind |-> "corrupt", text |-> <<>>]

\* fs.writeFileSync(config.dataFile, JSON.stringify(dakboardData, null, 2))
WriteFile(cards) == [kind |-> "json", text |-> Stringify(cards)]

----------------------------------------------------------------------------
(* Spec: the server *)

\* what response.json() can yield
ParseError == [kind |-> "parseError", records |-> <<>>]
ErrorObject == [kind |-> "notArray", records |-> <<>>]
ArrayBody(r) == [kind |-> "array", records |-> r]

\* the array bodies the server receives: none, one Tuesday record, one
\* record whose date is no date
ServerResponses ==
    {<<>>, <<BaseRecord(2)>>, <<Raw("AAA", "", [kind |-> "bad", day |-> 0, hour |-> 0], NoEps)>>}

Bodies == {ParseError, ErrorObject} \cup {ArrayBody(r) : r \in ServerResponses}

\* the slot is assigned the array while it is still being built
AfterJsonEarlyPublish(body, day, now, zone, f, c) ==
    IF body.kind = "array" /\ Pipeline(body.records, day, zone).ok
    THEN [kind |-> "published", file |-> WriteFile(Pipeline(body.records, day, zone).cards),
          cachedData |-> Pipeline(body.records, day, zone).cards,
          ret |-> Pipeline(body.records, day, zone).cards]
    ELSE [kind |-> IF body.kind = "array" THEN "pipelineFailed" ELSE "fetchFailed",
          file |-> f, cachedData |-> <<HeaderCard(day)>>,
          ret |-> getSampleData(now)]

\* the cache file is written with the cards at hand before a failure is known
AfterJsonWriteFirst(body, day, now, zone, f, c) ==
    IF body.kind = "array" /\ Pipeline(body.records, day, zone).ok
    THEN [kind |-> "published", file |-> WriteFile(Pipeline(body.records, day, zone).cards),
          cachedData |-> Pipeline(body.records, day, zone).cards,
          ret |-> Pipeline(body.records, day, zone).cards]
    ELSE [kind |-> IF body.kind = "array" THEN "pipelineFailed" ELSE "fetchFailed",
          file |-> WriteFile(Headers(day)), cachedData |-> c,
          ret |-> getSampleData(now)]

\* fetchEarningsData from the resolution of "await response.json()" to
\* its return, run to completion: the file, the published slot and the
\* returned sequence.  day is the date captured at line 49, now the date
\* at the return.
AfterJson(body, day, now, zone, f, c) ==
    IF body.kind # "array"
    THEN \* parse error, or "API did not return an array"
         [kind |-> "fetchFailed", file |-> f, cachedData |-> c, ret |-> getSampleData(now)]
    ELSE LET p == Pipeline(body.records, day, zone)
         IN  IF p.ok
             THEN [kind |-> "published", file |-> WriteFile(p.cards),
                   cachedData |-> p.cards, ret |-> p.cards]
             ELSE [kind |-> "pipelineFailed", file |-> f, cachedData |-> c,
                   ret |-> getSampleData(now)]

Invocation(trig, day) == [trigger |-> trig, pc |-> "fetch", day |-> day]

RemoveAt(q, i) == SubSeq(q, 1, i - 1) \o SubSeq(q, i + 1, Len(q))

Event(kind, trig, cards) == [kind |-> kind, trigger |-> trig, cards |-> cards]

\* initializeData has run its synchronous part
Started == listening \/ \E i \in 1..Len(inv) : inv[i].trigger = "startup"

PipelineOff ==
    /\ data = <<>>
    /\ pc = "off"
    /\ idx = 1
    /\ earningsByDate = <<>>
    /\ dateEntries = <<>>
    /\ dakboardData = <<>>
    /\ businessDaysCounter = 0

\* the cache files an earlier run of the program can have left
EarlierFiles(zone) ==
    {WriteFile(Pipeline(r, 0, zone).cards) : r \in {x \in ServerResponses : Pipeline(x, 0, zone).ok}}

Init ==
    /\ tz \in TimeZones
    /\ today = 1
    /\ cachedData = <<>>
    /\ file \in {NoFile, CorruptFile} \cup EarlierFiles(tz)
    /\ listening = FALSE
    /\ inv = <<>>
    /\ last = Event("none", "none", <<>>)
    /\ response = <<>>
    /\ PipelineOff

\* initializeData, file present and parsable; then app.listen
InitLoad ==
    /\ ~Started
    /\ file.kind = "json"
    /\ cachedData' = Parse(file.text)
    /\ listening' = TRUE
    /\ last' = Event("loaded", "startup", Parse(file.text))
    /\ UNCHANGED <<tz, today, file, inv, response, pipeVars>>

\* initializeData, JSON.parse throws: the catch block; then app.listen
InitCorrupt ==
    /\ ~Started
    /\ file.kind = "corrupt"
    /\ cachedData' = getSampleData(today)
    /\ listening' = TRUE
    /\ last' = Event("loadFailed", "startup", getSampleData(today))
    /\ UNCHANGED <<tz, today, file, inv, response, pipeVars>>

\* initializeData, no file: await fetchEarningsData()
InitFetch ==
    /\ ~Started
    /\ file.kind = "absent"
    /\ inv' = Append(inv, Invocation("startup", today))
    /\ last' = Event("started", "startup", <<>>)
    /\ UNCHANGED <<tz, today, cachedData, file, listening, response, pipeVars>>

\* the cron callback at local midnight: await fetchEarningsData()
CronTick ==
    /\ Started
    /\ today < 1 + MaxTicks
    /\ Len(inv) < MaxInFlight
    /\ today' = today + 1
    /\ inv' = Append(inv, Invocation("cron", today + 1))
    /\ last' = Event("started", "cron", <<>>)
    /\ UNCHANGED <<tz, cachedData, file, listening, response, pipeVars>>

\* GET /api/refresh: await fetchEarningsData()
Refresh ==
    /\ listening
    /\ Len(inv) < MaxInFlight
    /\ inv' = Append(inv, Invocation("refresh", today))
    /\ last' = Event("started", "refresh", <<>>)
    /\ UNCHANGED <<tz, today, cachedData, file, listening, response, pipeVars>>

\* "await fetch(url)" resolves with a response
FetchArrives(i) ==
    /\ inv[i].pc = "fetch"
    /\ inv' = [inv EXCEPT ![i].pc = "json"]
    /\ last' = Event("arrived", inv[i].trigger, <<>>)
    /\ UNCHANGED <<tz, today, cachedData, file, listening, response, pipeVars>>

\* the return of invocation i with outcome o: the caller's continuation
\* (initializeData assigns the returned sequence, then app.listen)
Return(i, o) ==
    /\ inv' = RemoveAt(inv, i)
    /\ file' = o.file
    /\ cachedData' = IF inv[i].trigger = "startup" THEN o.ret ELSE o.cachedData
    /\ listening' = (listening \/ inv[i].trigger = "startup")
    /\ last' = Event(o.kind, inv[i].trigger, o.ret)
    /\ UNCHANGED <<tz, today, response, pipeVars>>

\* "await fetch(url)" rejects (network error): the catch block
FetchFails(i) ==
    /\ inv[i].pc = "fetch"
    /\ Return(i, [kind |-> "fetchFailed", file |-> file, cachedData |-> cachedData,
                  ret |-> getSampleData(today)])

\* "await response.json()" settles with body b and the rest of the function runs
JsonSettles(i, b) ==
    /\ inv[i].pc = "json"
    /\ Return(i, AfterJson(b, inv[i].day, today, tz, file, cachedData))

\* GET /api/earnings: res.json(cachedData)
ServeEarnings ==
    /\ listening
    /\ response' = Stringify(cachedData)
    /\ last' = Event("served", "earnings", cachedData)
    /\ UNCHANGED <<tz, today, cachedData, file, listening, inv, pipeVars>>

Next ==
    \/ InitLoad
    \/ InitCorrupt
    \/ InitFetch
    \/ CronTick
    \/ Refresh
    \/ \E i \in 1..Len(inv) : FetchArrives(i)
    \/ \E i \in 1..Len(inv) : FetchFails(i)
    \/ \E i \in 1..Len(inv) : \E b \in Bodies : JsonSettles(i, b)
    \/ ServeEarnings

Spec == Init /\ [][Next]_vars

----------------------------------------------------------------------------
(* Reading a card sequence *)

IsSeparator(card) == card.value = "---"

DayLabelValues ==
    {dayLabels[k] \o " - " \o ToString(n) : k \in 1..Len(dayLabels), n \in 1..31}

IsDayLabel(card) ==
    card.value \in DayLabelValues /\ card.title = "" /\ card.subtitle = ""

IsCompany(card) == \E k \in 1..Len(SymbolOrder) : card.value = SymbolOrder[k]

CountCards(cards, P(_)) == Cardinality({k \in 1..Len(cards) : P(cards[k])})

\* the entries of dateEntries whose group the loop has emitted so far
EmittedKeys ==
    {k \in 1..Len(dateEntries) :
        /\ k < idx
        /\ ~IsWeekend(getDay(NewDate(DateOnly(dateEntries[k].date), tz), tz))}

InTransform == pc \in {"transform", "done"}

----------------------------------------------------------------------------
(* C1: the card sequence produced by the transform step never ends with a  *)
(* section-separator card, for 0, 1..9 or 10+ qualifying dates.            *)
(* The code pushes the separator whenever businessDaysCounter < 9, so with *)
(* 1..9 emitted days the last group is followed by a separator.            *)
NoTrailingSeparator ==
    pc = "done" => ~IsSeparator(dakboardData[Len(dakboardData)])

(* C2: whatever the number of qualifying dates, the card sequence holds at *)
(* most 10 day-label cards, one per emitted group, and                     *)
(* businessDaysCounter never exceeds 10.                                   *)
AtMostTenDays ==
    /\ businessDaysCounter <= 10
    /\ CountCards(dakboardData, IsDayLabel) <= 10
    /\ InTransform => CountCards(dakboardData, IsDayLabel) = businessDaysCounter

\* more than ten qualifying dates: the break is taken with entries left over
CapWitness ==
    /\ pc = "done"
    /\ idx <= Len(dateEntries)
    /\ businessDaysCounter = 10
    /\ CountCards(dakboardData, IsDayLabel) = 10

(* C3: during and after the grouping loop every key of earningsByDate is a *)
(* date that is neither a Saturday nor a Sunday.                           *)
(* The loop tests the local day of week (getDay) but keys by the UTC date  *)
(* (toISOString), so away from UTC the two days differ.                    *)
NoWeekendKeys ==
    \A k \in 1..Len(earningsByDate) : ~IsWeekend(KeyWeekday(earningsByDate[k].date))

\* the grouped entries of the emitted groups that satisfy P
EmittedEntries(P(_)) ==
    {<<k, j>> \in UNION {{k} \X (1..Len(dateEntries[k].earnings)) : k \in EmittedKeys} :
        P(dateEntries[k].earnings[j])}

(* C8: within every day group of the output the company cards are in       *)
(* ascending order of symbol, whatever the arrival order of the records,   *)
(* and every record of an emitted date has its card, repeated symbols too. *)
CompaniesSortedAndKept ==
    InTransform =>
        /\ \A k \in 1..(Len(dakboardData) - 1) :
              IsCompany(dakboardData[k]) /\ IsCompany(dakboardData[k + 1])
                  => localeCompare(dakboardData[k].value, dakboardData[k + 1].value) <= 0
        /\ \A k \in 1..Len(SymbolOrder), nm \in {"Zeta Corp", "AAA", "ZZZ"} :
              LET Same(c) == c.value = SymbolOrder[k] /\ c.title = nm
                  From(e) == e.symbol = SymbolOrder[k] /\ e.name = nm
              IN  CountCards(dakboardData, Same) = Cardinality(EmittedEntries(From))

\* a group whose records arrived as ZZZ then AAA has been emitted
OutOfOrderWitness ==
    /\ pc = "done"
    /\ \E k \in EmittedKeys :
          /\ Len(dateEntries[k].earnings) >= 2
          /\ dateEntries[k].earnings[1].symbol = "ZZZ"
          /\ dateEntries[k].earnings[2].symbol = "AAA"

\* the subtitle the claim asks for
ClaimedSubtitle(eps) ==
    IF eps.present THEN "Est. EPS: $" \o ToString(eps.num) ELSE ""

(* C9: the company card of a grouped entry has subtitle "Est. EPS: $<v>"   *)
(* exactly when the record carried an EPS estimate, 0 included, and the    *)
(* empty subtitle exactly when it carried none.                            *)
(* The code tests the truthiness of earning.eps, and 0 is falsy.           *)
SubtitleIffEpsPresent ==
    InTransform =>
        \A k \in EmittedKeys : \A j \in 1..Len(dateEntries[k].earnings) :
            LET e == dateEntries[k].earnings[j]
            IN  \E c \in 1..Len(dakboardData) :
                    dakboardData[c] = Card(e.symbol, e.name, ClaimedSubtitle(e.eps))

----------------------------------------------------------------------------
(* Claims about the server *)

Days == 0..(1 + MaxTicks)

FailureKinds == {"fetchFailed", "pipelineFailed"}

\* the sequences a handler can have built completely
CompleteSequences ==
    {getSampleData(d) : d \in Days}
        \cup {Pipeline(r, d, tz).cards :
                  r \in {x \in ServerResponses : Pipeline(x, 0, tz).ok}, d \in Days}

(* C4: when an invocation, however triggered, fails at the fetch stage     *)
(* (network error, unparsable body, non-array body), cachedData equals the *)
(* fallback of getSampleData once the invocation has finished.             *)
(* fetchEarningsData only returns the fallback; the cron callback and      *)
(* /api/refresh drop the returned value, so the slot keeps what it held.   *)
FetchFailurePublishesFallback ==
    last.kind = "fetchFailed" => cachedData = getSampleData(today)

AtMostOneInFlight == Len(inv) <= 1

IsHeader(card) == \E d \in Days : card = HeaderCard(d)

(* C7: whenever the server answers requests, cachedData is a non-empty     *)
(* card sequence whose first two cards are the header card and the note    *)
(* card, for every startup condition and every run of refreshes.           *)
ServesWellFormed ==
    listening =>
        /\ Len(cachedData) >= 2
        /\ IsHeader(cachedData[1])
        /\ cachedData[2] = NoteCard

\* first run, no cache file, and the startup fetch has failed
OfflineStartWitness ==
    /\ listening
    /\ last.trigger = "startup"
    /\ last.kind = "fetchFailed"
    /\ file.kind = "absent"

(* C10: every answer of GET /api/earnings is one complete published        *)
(* sequence, the one in the slot when the handler ran: never a sequence    *)
(* still being built, never a mixture, whatever refreshes are in flight.   *)
AtomicPublish ==
    /\ listening => cachedData \in CompleteSequences
    /\ last.kind = "served" =>
          /\ response = Stringify(cachedData)
          /\ Parse(response) \in CompleteSequences

\* a read answered while a refresh is between its two awaits
ReadDuringRefreshWitness ==
    /\ last.kind = "served"
    /\ \E i \in 1..Len(inv) : inv[i].pc = "json"
    /\ Len(response) > 2

----------------------------------------------------------------------------
(* Claims about the day labels and the cache file *)

KeyOf(entry) == entry.date

IsWeekdayEntry(entry) == ~IsWeekend(KeyWeekday(entry.date))

\* the entries, in ascending key order, whose key is no Saturday or Sunday
WeekdayEntries == SelectSeq(dateEntries, IsWeekdayEntry)

\* the day-label cards of the output, in order
LabelCards == SelectSeq(dakboardData, IsDayLabel)

(* C11: the k-th day-label card (k from 0, keys ascending, weekend keys    *)
(* not counted) reads "<L> - <dayOfMonth>": L is dayLabels[k mod 5] and    *)
(* dayOfMonth is the day of month of the k-th key.                         *)
(* The code reads the day of month, and the weekend it skips, from the     *)
(* local date of the key's UTC midnight, which west of UTC is the day      *)
(* before the key.                                                         *)
LabelBySlotAndKeyDay ==
    InTransform =>
        \A j \in 1..Len(LabelCards) :
            /\ j <= Len(WeekdayEntries)
            /\ LabelCards[j].value =
                   dayLabels[((j - 1) % Len(dayLabels)) + 1] \o " - "
                       \o ToString(DayOfMonth(KeyOf(WeekdayEntries[j])))

(* C12: while the server is serving, if the cache file holds a sequence    *)
(* then cachedData is that sequence, across every interleaving of the      *)
(* startup fetch with cron and manual refreshes, failing ones included.    *)
(* (No state of the model lies between the file write and the slot         *)
(* assignment: the two run in one handler step.)                           *)
(* initializeData assigns whatever its own fetch returns, so a refresh     *)
(* that succeeded while the startup fetch was awaiting is overwritten.     *)
SlotMatchesFile ==
    (listening /\ file.kind = "json") => cachedData = Parse(file.text)

====
